---------------------------- MODULE Spec2Model ----------------------------
(***************************************************************************)
(* COVID19-ES-Py: the field normalizer (trata_dados_linha), the case       *)
(* record (Caso), the aggregation pass (Relatorio.popula_relatorio) and    *)
(* the date filters of LeitorRelatorio, as state machines.                 *)
(*                                                                         *)
(* Python values are tagged pairs <<type, value>>, so that a cell may hold *)
(* text, an integer, a boolean, None or a parsed date.  Text is inspected  *)
(* character by character (substring tests, upper-casing, accent           *)
(* stripping, date parsing) through the table Chars.                       *)
(***************************************************************************)
EXTENDS Integers, Sequences, FiniteSets, TLC

VARIABLES
    microdados,              \* the rows import_from_csv yields for the csv
    leitorLinhas,            \* LeitorRelatorio.linhasRelatorio
    linhasRelatorio,         \* Relatorio.linhasRelatorio (the working row set)
    casosMunicipios,         \* Relatorio.casosMunicipios
    importadosOuIndefinidos, \* Relatorio.importadosOuIndefinidos
    totalGeral,              \* Relatorio.totalGeral
    nMunicipiosInfectados,   \* Relatorio.nMunicipiosInfectados
    pc,                      \* "ocioso", or "popula" inside popula_relatorio's loop
    i,                       \* position of the loop of popula_relatorio
    erro,                    \* the exception the last call raised, or "nenhum"
    chamada,                 \* the last call made: [op, data, aceita]
    passada,                 \* how the last aggregation pass ended
    anterior,                \* the Report as it stood when popula_relatorio was called
    retornado,               \* the first Report a call returned, kept by the caller
    bruta,                   \* a raw row of 27 cells, outside any Relatorio
    tratada,                 \* what trata_dados_linha made of it
    casoCriado               \* what Caso(dados) made of it

vars == <<microdados, leitorLinhas, linhasRelatorio, casosMunicipios,
          importadosOuIndefinidos, totalGeral, nMunicipiosInfectados,
          pc, i, erro, chamada, passada, anterior, retornado, bruta, tratada,
          casoCriado>>

relatorioVars == <<casosMunicipios, importadosOuIndefinidos, totalGeral,
                   nMunicipiosInfectados>>

linhaVars == <<bruta, tratada, casoCriado>>

leitorVars == <<microdados, leitorLinhas, linhasRelatorio, casosMunicipios,
                importadosOuIndefinidos, totalGeral, nMunicipiosInfectados,
                pc, i, erro, chamada, passada, anterior, retornado>>

\* The most case rows a csv holds.
MaxCasos == 2

-----------------------------------------------------------------------------
(* Python values *)

Str(s) == <<"str", s>>
Inteiro(n) == <<"int", n>>
None == <<"NoneType", "None">>
True == <<"bool", "True">>
False == <<"bool", "False">>
Arrow(n) == <<"Arrow", n>>

IsStr(v) == v[1] = "str"

\* The characters of each text the model handles.
Chars(s) ==
    CASE s = "" -> <<>>
      [] s = "-" -> <<"-">>
      [] s = "10/03/2020" -> <<"1", "0", "/", "0", "3", "/", "2", "0", "2", "0">>
      [] s = "11/03/2020" -> <<"1", "1", "/", "0", "3", "/", "2", "0", "2", "0">>
      [] s = "12/03/2020" -> <<"1", "2", "/", "0", "3", "/", "2", "0", "2", "0">>
      [] s = "11-03-2020" -> <<"1", "1", "-", "0", "3", "-", "2", "0", "2", "0">>
      [] s = "11032020" -> <<"1", "1", "0", "3", "2", "0", "2", "0">>
      [] s = "DataNotificacao" -> <<"D", "a", "t", "a", "N", "o", "t", "i", "f", "i", "c", "a", "c", "a", "o">>
      [] s = "SERRA" -> <<"S", "E", "R", "R", "A">>
      [] s = "VITORIA" -> <<"V", "I", "T", "O", "R", "I", "A">>
      [] s = "Vitória" -> <<"V", "i", "t", "ó", "r", "i", "a">>
      [] s = "GOIANIA" -> <<"G", "O", "I", "A", "N", "I", "A">>
      [] s = "Laboratorial" -> <<"L", "a", "b", "o", "r", "a", "t", "o", "r", "i", "a", "l">>
      [] s = "Clinico-Epidemiologico" -> <<"C", "l", "i", "n", "i", "c", "o", "-", "E", "p", "i", "d", "e", "m", "i", "o", "l", "o", "g", "i", "c", "o">>
      [] s = "Ignorado" -> <<"I", "g", "n", "o", "r", "a", "d", "o">>
      [] s = "Parda" -> <<"P", "a", "r", "d", "a">>
      [] s = "Ignorado/Outro" -> <<"I", "g", "n", "o", "r", "a", "d", "o", "/", "O", "u", "t", "r", "o">>
      [] s = "Sim" -> <<"S", "i", "m">>
      [] s = "Não" -> <<"N", "ã", "o">>
      [] s = "Não encontrado" -> <<"N", "ã", "o", " ", "e", "n", "c", "o", "n", "t", "r", "a", "d", "o">>
      [] s = "NULL" -> <<"N", "U", "L", "L">>
      [] s = "CENTRO" -> <<"C", "E", "N", "T", "R", "O">>
      [] s = "Óbito pelo COVID-19" -> <<"Ó", "b", "i", "t", "o", " ", "p", "e", "l", "o", " ", "C", "O", "V", "I", "D", "-", "1", "9">>
      [] s = "Cura" -> <<"C", "u", "r", "a">>
      [] s = "Confirmados" -> <<"C", "o", "n", "f", "i", "r", "m", "a", "d", "o", "s">>
      [] s = "Suspeito" -> <<"S", "u", "s", "p", "e", "i", "t", "o">>

\* Python's  agulha in palheiro  on two texts: a substring test.
Contem(agulha, palheiro) ==
    LET a == Chars(agulha)
        p == Chars(palheiro)
    IN  \E k \in 0..(Len(p) - Len(a)) : SubSeq(p, k + 1, k + Len(a)) = a

Minusculas == <<"a", "b", "c", "d", "e", "f", "g", "h", "i", "j", "k", "l", "m",
                "n", "o", "p", "q", "r", "s", "t", "u", "v", "w", "x", "y", "z",
                "ã", "ó">>
Maiusculas == <<"A", "B", "C", "D", "E", "F", "G", "H", "I", "J", "K", "L", "M",
                "N", "O", "P", "Q", "R", "S", "T", "U", "V", "W", "X", "Y", "Z",
                "Ã", "Ó">>

\* str.upper(), on characters.
upper(cs) ==
    [k \in 1..Len(cs) |->
        IF \E j \in 1..Len(Minusculas) : Minusculas[j] = cs[k]
        THEN Maiusculas[CHOOSE j \in 1..Len(Minusculas) : Minusculas[j] = cs[k]]
        ELSE cs[k]]

SemAcento(c) ==
    CASE c = "Ã" -> "A" [] c = "ã" -> "a" [] c = "Ó" -> "O" [] c = "ó" -> "o"
      [] OTHER -> c

Alfanumerico(c) ==
    c \in {Minusculas[j] : j \in 1..26} \cup {Maiusculas[j] : j \in 1..26}
          \cup {"0", "1", "2", "3", "4", "5", "6", "7", "8", "9", " "}

\* utils.remove_caracteres_especiais: accents stripped, then every character
\* that is not a letter, a digit or a space dropped.
remove_caracteres_especiais(cs) ==
    SelectSeq([k \in 1..Len(cs) |-> SemAcento(cs[k])], Alfanumerico)

\* utils.MUNICIPIOS: the registry of canonical names (upper case, no accents).
MUNICIPIOS == {"SERRA", "VITORIA"}

\* remove_caracteres_especiais(municipio.upper()) in MUNICIPIOS
NoRegistro(municipio) ==
    remove_caracteres_especiais(upper(Chars(municipio)))
        \in {Chars(m) : m \in MUNICIPIOS}

-----------------------------------------------------------------------------
(* arrow.get(texto, formatos) *)

Digitos == <<"0", "1", "2", "3", "4", "5", "6", "7", "8", "9">>
EhDigito(c) == \E d \in 1..10 : Digitos[d] = c
Digito(c) == (CHOOSE d \in 1..10 : Digitos[d] = c) - 1

\* The date a text holds under the format DD<sep>MM<sep>YYYY (sep may be
\* empty), as year * 10000 + month * 100 + day; -1 when it does not match.
ParseFormato(cs, sep) ==
    LET n == Len(sep)
        ds == IF Len(cs) = 8 + 2 * n
              THEN <<cs[1], cs[2], cs[3 + n], cs[4 + n], cs[5 + 2 * n],
                     cs[6 + 2 * n], cs[7 + 2 * n], cs[8 + 2 * n]>>
              ELSE <<>>
        casa == /\ Len(cs) = 8 + 2 * n
                /\ n = 1 => (cs[3] = sep[1] /\ cs[6] = sep[1])
                /\ \A k \in 1..8 : EhDigito(ds[k])
        dia == 10 * Digito(ds[1]) + Digito(ds[2])
        mes == 10 * Digito(ds[3]) + Digito(ds[4])
        ano == 1000 * Digito(ds[5]) + 100 * Digito(ds[6])
                 + 10 * Digito(ds[7]) + Digito(ds[8])
    IN  IF casa /\ dia \in 1..31 /\ mes \in 1..12 /\ ano >= 1
        THEN ano * 10000 + mes * 100 + dia
        ELSE -1

\* 'DD/MM/YYYY', the one format trata_dados_linha accepts.
FormatoLinha == << <<"/">> >>
\* ["DD/MM/YYYY", "DD-MM-YYYY", "DD_MM_YYYY", "DD.MM.YYYY", "DDMMYYYY"]
FormatosFiltro == << <<"/">>, <<"-">>, <<"_">>, <<".">>, <<>> >>

\* arrow.get: the first format that matches decides; -1 stands for the
\* ParserError raised when none does.
arrow_get(texto, formatos) ==
    LET cs == Chars(texto)
        ok == {f \in 1..Len(formatos) : ParseFormato(cs, formatos[f]) # -1}
    IN  IF ok = {} THEN -1
        ELSE ParseFormato(cs, formatos[CHOOSE f \in ok : \A g \in ok : f <= g])

-----------------------------------------------------------------------------
(* The field normalizer *)

\* The first position (counting from 1) the boolean vocabulary is applied
\* to: linha[12:].
PrimeiraColunaBool == 13

\* stringParaBool.get(v, None)
stringParaBool(v) ==
    CASE v = Str("Sim") -> True
      [] v = Str("Não") -> False
      [] v = Str("-") -> None
      [] v = Str("") -> None
      [] v = Inteiro(1) -> True
      [] v = Inteiro(2) -> None
      [] OTHER -> None

\* linha[2] in ["Ignorado", "-"]
SentinelaEvolucao(v) == v \in {Str("Ignorado"), Str("-")}
\* "-" in linha[3]
SentinelaCriterio(v) == Contem("-", v[2])
\* linha[6] in ["Não encontrado", "NULL"]
SentinelaBairro(v) == v \in {Str("Não encontrado"), Str("NULL")}
\* "Ignorado" in linha[9], "Ignorado" in linha[10]
SentinelaIgnorado(v) == Contem("Ignorado", v[2])
\* "-" in linha[11]
SentinelaFebre(v) == Contem("-", v[2])

\* trata_dados_linha on a row of cells (position j of the code is j + 1
\* here): the row it returns, or the exception it raises.  A substring test
\* on a cell that holds no text raises TypeError.
trata_dados_linha(linha) ==
    LET d == IF IsStr(linha[1]) THEN arrow_get(linha[1][2], FormatoLinha) ELSE -1
    IN  IF d = -1 THEN [erro |-> "ParserError", linha |-> linha]
        ELSE IF \E j \in {4, 10, 11, 12} : ~IsStr(linha[j])
        THEN [erro |-> "TypeError", linha |-> linha]
        ELSE [erro |-> "nenhum",
              linha |-> [j \in 1..Len(linha) |->
                  CASE j = 1 -> Arrow(d)
                    [] j = 3 -> IF SentinelaEvolucao(linha[j]) THEN None ELSE linha[j]
                    [] j = 4 -> IF SentinelaCriterio(linha[j]) THEN None ELSE linha[j]
                    [] j = 7 -> IF SentinelaBairro(linha[j]) THEN None ELSE linha[j]
                    [] j \in {10, 11} ->
                           IF SentinelaIgnorado(linha[j]) THEN None ELSE linha[j]
                    [] j = 12 -> IF SentinelaFebre(linha[j]) THEN None ELSE linha[j]
                    [] j >= PrimeiraColunaBool -> stringParaBool(linha[j])
                    [] OTHER -> linha[j]]]

\* Caso.carrega_dados_linha, given the normalized row.
carrega_dados_linha(linha) ==
    [data |-> linha[1],
     classificacao |-> linha[2],
     evolucao |-> linha[3],
     criterioConfirmacao |-> linha[4],
     statusNotificacao |-> linha[5],
     municipio |-> linha[6],
     bairro |-> linha[7],
     faixaEtaria |-> linha[8],
     sexo |-> linha[9],
     racaCor |-> linha[10],
     escolaridade |-> linha[11],
     sintomas |-> [febre |-> linha[12],
                   dificuldadeRespiratoria |-> linha[13],
                   tosse |-> linha[14],
                   coriza |-> linha[15],
                   dorGarganta |-> linha[16],
                   diarreia |-> linha[17],
                   cefaleia |-> linha[18]],
     comorbidades |-> [comorbidadePulmao |-> linha[19],
                       comorbidadeCardio |-> linha[20],
                       comorbidadeRenal |-> linha[21],
                       comorbidadeDiabetes |-> linha[22],
                       comorbidadeTabagismo |-> linha[23],
                       comorbidadeObesidade |-> linha[24]],
     ficouInternado |-> linha[25],
     viagemBrasil |-> linha[26],
     viagemInternacional |-> linha[27]]

\* Caso(dados): the case record of a raw row, or the exception raised.
Caso(dados) ==
    LET t == trata_dados_linha(dados)
    IN  IF t.erro = "nenhum"
        THEN [erro |-> "nenhum", caso |-> carrega_dados_linha(t.linha)]
        ELSE [erro |-> t.erro, caso |-> carrega_dados_linha(dados)]

-----------------------------------------------------------------------------
(* The rows of the csv *)

\* A row of the csv is kept by the four cells the aggregation and the
\* filters read: positions 0 (date), 1 (classification), 2 (outcome) and
\* 5 (municipality).  LinhaCSV gives the 27 cells of the row.
LinhaCSV(r) ==
    [j \in 1..27 |->
        CASE j = 1 -> Str(r.data)
          [] j = 2 -> Str(r.classificacao)
          [] j = 3 -> Str(r.evolucao)
          [] j = 4 -> Str("Laboratorial")
          [] j = 6 -> Str(r.municipio)
          [] j = 10 -> Str("Parda")
          [] j = 11 -> Str("Ignorado")
          [] j \in 12..27 -> Str("Não")
          [] OTHER -> Str("CENTRO")]

\* The header line of MICRODADOS.csv.
Cabecalho ==
    [data |-> "DataNotificacao", classificacao |-> "Classificacao",
     evolucao |-> "Evolucao", municipio |-> "Municipio"]

DatasLinha == {"10/03/2020", "11/03/2020"}
Classificacoes == {"Confirmados", "Suspeito"}
Evolucoes == {"Óbito pelo COVID-19", "-"}
TextosMunicipio == {"SERRA", "VITORIA", "Vitória", "GOIANIA"}

Linhas ==
    [data : DatasLinha, classificacao : Classificacoes,
     evolucao : Evolucoes, municipio : TextosMunicipio]

\* The csv files as import_from_csv hands them over: the case rows, after the
\* header line when the reader keeps it as row 0.
Tabelas ==
    {cab \o casos : cab \in {<<>>, <<Cabecalho>>},
                    casos \in UNION {[1..n -> Linhas] : n \in 0..MaxCasos}}

\* The dates handed to the filters.
DatasAlvo == {"10/03/2020", "11-03-2020"}

-----------------------------------------------------------------------------
(* Relatorio *)

\* A list attribute that may still be None.
Nulo == [nulo |-> TRUE, linhas |-> <<>>]
Lista(l) == [nulo |-> FALSE, linhas |-> l]

\* Python's truth value of a row collection: None and the empty list are false.
Verdadeiro(l) == ~l.nulo /\ Len(l.linhas) > 0

\* Municipio(nome)
Municipio(nome) ==
    [nome |-> nome, casos |-> <<>>, casosConfirmados |-> 0, obitos |-> 0]

\* inicializa_dicionario_municipios: a fresh Municipio under every registry
\* name, whatever the dictionary held.
inicializa_dicionario_municipios(cm) ==
    [m \in (DOMAIN cm) \cup MUNICIPIOS |->
        IF m \in MUNICIPIOS THEN Municipio(m) ELSE cm[m]]

\* A pass that keeps the counters of the pass before (no clearing).
ContadorMantido(c) == c

\* The counters as popula_relatorio sets them before its loop.
ContadorZerado(c) == [casosConfirmados |-> 0, obitos |-> 0]

\* Relatorio() inside LeitorRelatorio(): nothing loaded, every counter zero.
RelatorioNovo ==
    [casosMunicipios |-> [m \in MUNICIPIOS |-> Municipio(m)],
     importadosOuIndefinidos |-> [casosConfirmados |-> 0, obitos |-> 0],
     totalGeral |-> [casosConfirmados |-> 0, obitos |-> 0],
     nMunicipiosInfectados |-> 0]

\* The Relatorio as one value.
Rel ==
    [casosMunicipios |-> casosMunicipios,
     importadosOuIndefinidos |-> importadosOuIndefinidos,
     totalGeral |-> totalGeral,
     nMunicipiosInfectados |-> nMunicipiosInfectados]

\* The first lines of popula_relatorio: everything cleared.
Reiniciado(rel) ==
    [casosMunicipios |-> inicializa_dicionario_municipios(rel.casosMunicipios),
     importadosOuIndefinidos |-> ContadorZerado(rel.importadosOuIndefinidos),
     totalGeral |-> ContadorZerado(rel.totalGeral),
     nMunicipiosInfectados |-> 0]

EhObito(caso) == caso.evolucao = Str("Óbito pelo COVID-19")

\* The key popula_relatorio indexes casosMunicipios with.
ChaveMunicipio(caso) == caso.municipio[2]

\* An unmatched death that is left out of the unclassified deaths.
ImportadoSemObito(c, ob) ==
    [casosConfirmados |-> c.casosConfirmados + 1, obitos |-> c.obitos]

\* The unclassified counters after one more unmatched case.
ImportadoMaisUm(c, ob) ==
    [casosConfirmados |-> c.casosConfirmados + 1, obitos |-> c.obitos + ob]

\* A total that is not advanced.
TotalSemSoma(n) == n

\* The Report's confirmed total after one more row.
TotalMaisUm(n) == n + 1

\* The body of the loop of popula_relatorio for one case: the Relatorio it
\* leaves, or the exception it raises (before it has changed anything).
popula_caso(rel, caso) ==
    LET k == ChaveMunicipio(caso)
        ob == IF EhObito(caso) THEN 1 ELSE 0
        tg == [casosConfirmados |-> TotalMaisUm(rel.totalGeral.casosConfirmados),
               obitos |-> rel.totalGeral.obitos + ob]
    IN  IF NoRegistro(caso.municipio[2])
        THEN IF k \notin DOMAIN rel.casosMunicipios
             THEN [erro |-> "KeyError", rel |-> rel]
             ELSE LET m == rel.casosMunicipios[k]
                  IN  [erro |-> "nenhum",
                       rel |-> [rel EXCEPT
                          !.nMunicipiosInfectados =
                              IF m.casosConfirmados = 0 THEN @ + 1 ELSE @,
                          !.casosMunicipios[k] =
                              [m EXCEPT !.obitos = @ + ob,
                                        !.casos = Append(@, caso),
                                        !.casosConfirmados = @ + 1],
                          !.totalGeral = tg]]
        ELSE [erro |-> "nenhum",
              rel |-> [rel EXCEPT
                 !.importadosOuIndefinidos = ImportadoMaisUm(@, ob),
                 !.totalGeral = tg]]

\* One iteration of  for linha in self.linhasRelatorio.
popula_linha(rel, linha) ==
    LET c == Caso(LinhaCSV(linha))
    IN  IF c.erro # "nenhum" THEN [erro |-> c.erro, rel |-> rel]
        ELSE popula_caso(rel, c.caso)

\* copy.copy(self): a new Relatorio whose attributes are those of self.  The
\* integer nMunicipiosInfectados and the reference to the row list are the
\* copy's own; totalGeral, importadosOuIndefinidos and casosMunicipios are
\* the very dictionaries of self.  naVolta records what those dictionaries
\* held when the copy was made.
copy_copy(rel, linhas) ==
    [valido |-> TRUE,
     nMunicipiosInfectados |-> rel.nMunicipiosInfectados,
     linhasRelatorio |-> linhas,
     naVolta |-> rel]

\* No Report kept yet.
SemRetorno ==
    [valido |-> FALSE,
     nMunicipiosInfectados |-> 0,
     linhasRelatorio |-> Nulo,
     naVolta |-> RelatorioNovo]

SetRel(rel) ==
    /\ casosMunicipios' = rel.casosMunicipios
    /\ importadosOuIndefinidos' = rel.importadosOuIndefinidos
    /\ totalGeral' = rel.totalGeral
    /\ nMunicipiosInfectados' = rel.nMunicipiosInfectados

\* Nothing kept of an earlier pass.
SemAnterior == [valida |-> FALSE, rel |-> RelatorioNovo]

\* popula_relatorio is entered over the row set l: the state is cleared and
\* the loop starts (iterating None raises TypeError, after the clearing).
\* ant is what the caller keeps of the Report as it stood before the call.
EntraPopula(l, ant) ==
    /\ SetRel(Reiniciado(Rel))
    /\ anterior' = ant
    /\ UNCHANGED retornado
    /\ i' = 1
    /\ IF l.nulo
       THEN pc' = "ocioso" /\ erro' = "TypeError" /\ passada' = "abortada"
       ELSE pc' = "popula" /\ erro' = "nenhum" /\ passada' = "em curso"

\* A call that raises before it changes anything.
Levanta(e) ==
    /\ erro' = e
    /\ UNCHANGED <<leitorLinhas, linhasRelatorio, relatorioVars, pc, i,
                   passada, anterior, retornado>>

-----------------------------------------------------------------------------
(* LeitorRelatorio *)

\* dataArrow >= arrow.get(caso[0], ...)
AteDia(alvo, d) == alvo >= d
\* dataArrow == arrow.get(caso[0], ...)
NoDia(alvo, d) == alvo = d

DataDe(r) == arrow_get(r.data, FormatosFiltro)

\* self.linhasRelatorio[1:]
SemPrimeira(l) == IF l = <<>> THEN <<>> ELSE Tail(l)

\* [caso for caso in self.linhasRelatorio[1:] if dataArrow >= arrow.get(...)]
LinhasAteDia(l, alvo) ==
    LET Fica(r) == AteDia(alvo, DataDe(r)) IN SelectSeq(SemPrimeira(l), Fica)

\* [caso for caso in self.linhasRelatorio[1:] if dataArrow == arrow.get(...)]
LinhasNoDia(l, alvo) ==
    LET Fica(r) == NoDia(alvo, DataDe(r)) IN SelectSeq(SemPrimeira(l), Fica)

\* A filter without its guard.
SemGuarda(l) == TRUE

\* The guard of both filters:  if self.relatorio.linhasRelatorio
TemLinhas(l) == Verdadeiro(l)

\* What both filters do, given the rows their comprehension keeps.  The call
\* is accepted when it raises nothing before it enters popula_relatorio.
Filtra(op, data, mantidas) ==
    LET alvo == arrow_get(data, FormatosFiltro)
        excecao ==
            IF ~TemLinhas(linhasRelatorio) THEN "RelatorioError"
            ELSE IF alvo = -1 THEN "ParserError"
            ELSE IF leitorLinhas.nulo THEN "AttributeError"
            ELSE IF \E k \in 2..Len(leitorLinhas.linhas) :
                        DataDe(leitorLinhas.linhas[k]) = -1
            THEN "ParserError"
            ELSE "nenhum"
    IN  /\ pc = "ocioso"
        /\ chamada' = [op |-> op, data |-> data, aceita |-> excecao = "nenhum"]
        /\ UNCHANGED <<microdados, linhaVars>>
        /\ IF excecao # "nenhum" THEN Levanta(excecao)
           ELSE /\ linhasRelatorio' = Lista(mantidas)
                /\ UNCHANGED leitorLinhas
                /\ EntraPopula(linhasRelatorio', SemAnterior)

filtra_casos_ate_dia(data) ==
    Filtra("filtra_casos_ate_dia", data,
           LinhasAteDia(leitorLinhas.linhas, arrow_get(data, FormatosFiltro)))

filtra_casos_no_dia(data) ==
    Filtra("filtra_casos_no_dia", data,
           LinhasNoDia(leitorLinhas.linhas, arrow_get(data, FormatosFiltro)))

\* carrega_ultimo_relatorio (and LeitorRelatorio(caminhoCSV), which does the same
\* on a file): the rows are read and aggregated.
carrega_ultimo_relatorio ==
    /\ pc = "ocioso"
    /\ chamada' = [op |-> "carrega_ultimo_relatorio", data |-> "", aceita |-> TRUE]
    /\ leitorLinhas' = Lista(microdados)
    /\ linhasRelatorio' = Lista(microdados)
    /\ EntraPopula(linhasRelatorio', SemAnterior)
    /\ UNCHANGED <<microdados, linhaVars>>

\* leitor.relatorio.popula_relatorio(), called by the user.
popula_relatorio ==
    /\ pc = "ocioso"
    /\ chamada' = [op |-> "popula_relatorio", data |-> "", aceita |-> TRUE]
    /\ EntraPopula(linhasRelatorio,
                   IF passada = "completa" THEN [valida |-> TRUE, rel |-> Rel]
                   ELSE SemAnterior)
    /\ UNCHANGED <<microdados, leitorLinhas, linhasRelatorio, linhaVars>>

\* The loop of popula_relatorio takes its next row.
ProcessaLinha ==
    /\ pc = "popula"
    /\ i <= Len(linhasRelatorio.linhas)
    /\ LET r == popula_linha(Rel, linhasRelatorio.linhas[i])
       IN  /\ SetRel(r.rel)
           /\ erro' = r.erro
           /\ IF r.erro = "nenhum"
              THEN i' = i + 1 /\ UNCHANGED <<pc, passada>>
              ELSE pc' = "ocioso" /\ passada' = "abortada" /\ UNCHANGED i
    /\ UNCHANGED <<microdados, leitorLinhas, linhasRelatorio, chamada, anterior,
                   retornado, linhaVars>>

\* The loop is over: return copy.copy(self).  The caller keeps the first
\* Report a call returns.
Retorna ==
    /\ pc = "popula"
    /\ i > Len(linhasRelatorio.linhas)
    /\ pc' = "ocioso"
    /\ passada' = "completa"
    /\ retornado' = IF retornado.valido THEN retornado
                    ELSE copy_copy(Rel, linhasRelatorio)
    /\ UNCHANGED <<microdados, leitorLinhas, linhasRelatorio, relatorioVars, i,
                   erro, chamada, anterior, linhaVars>>

InitLeitor ==
    /\ leitorLinhas = Nulo
    /\ linhasRelatorio = Nulo
    /\ casosMunicipios = RelatorioNovo.casosMunicipios
    /\ importadosOuIndefinidos = RelatorioNovo.importadosOuIndefinidos
    /\ totalGeral = RelatorioNovo.totalGeral
    /\ nMunicipiosInfectados = RelatorioNovo.nMunicipiosInfectados
    /\ pc = "ocioso"
    /\ i = 1
    /\ erro = "nenhum"
    /\ chamada = [op |-> "LeitorRelatorio", data |-> "", aceita |-> TRUE]
    /\ passada = "nenhuma"
    /\ anterior = SemAnterior
    /\ retornado = SemRetorno

\* Nothing made of the raw row yet.
Pendente == [erro |-> "pendente"]

Init ==
    /\ microdados \in Tabelas
    /\ InitLeitor
    /\ bruta = <<>>
    /\ tratada = Pendente
    /\ casoCriado = Pendente

Next ==
    \/ carrega_ultimo_relatorio
    \/ \E data \in DatasAlvo : filtra_casos_ate_dia(data)
    \/ \E data \in DatasAlvo : filtra_casos_no_dia(data)
    \/ popula_relatorio
    \/ ProcessaLinha
    \/ Retorna

Spec == Init /\ [][Next]_vars

-----------------------------------------------------------------------------
(* The field normalizer and the case record on their own *)

\* A raw row of the 27-column schema.
LinhaBase ==
    LinhaCSV([data |-> "10/03/2020", classificacao |-> "Confirmados",
              evolucao |-> "Cura", municipio |-> "SERRA"])

\* What a cell of the csv may hold.
Celulas ==
    {Str(t) : t \in {"", "-", "Sim", "Não", "Ignorado", "Ignorado/Outro",
                      "Não encontrado", "NULL", "Laboratorial",
                      "Clinico-Epidemiologico", "11/03/2020", "11-03-2020",
                      "DataNotificacao"}}
        \cup {Inteiro(1), Inteiro(2), Inteiro(3)}

\* The most cells in which a raw row differs from LinhaBase.
MaxCelulas == 1

RECURSIVE LinhasComTrocas(_)
LinhasComTrocas(n) ==
    IF n = 0 THEN {LinhaBase}
    ELSE {[l EXCEPT ![j] = v] :
              l \in LinhasComTrocas(n - 1), j \in 1..27, v \in Celulas}

LinhasBrutas == LinhasComTrocas(MaxCelulas)

\* trata_dados_linha(list(linha)), called on the raw row.
TrataLinha ==
    /\ tratada = Pendente
    /\ tratada' = trata_dados_linha(bruta)
    /\ UNCHANGED <<leitorVars, bruta, casoCriado>>

\* Caso(dados), built from the raw row.
CriaCaso ==
    /\ casoCriado = Pendente
    /\ casoCriado' = Caso(bruta)
    /\ UNCHANGED <<leitorVars, bruta, tratada>>

InitLinha ==
    /\ microdados = <<>>
    /\ InitLeitor
    /\ bruta \in LinhasBrutas
    /\ tratada = Pendente
    /\ casoCriado = Pendente

NextLinha == TrataLinha \/ CriaCaso

SpecLinha == InitLinha /\ [][NextLinha]_vars

-----------------------------------------------------------------------------
(* Properties of the aggregation and of the filters *)

RECURSIVE SomaConfirmados(_, _)
SomaConfirmados(cm, S) ==
    IF S = {} THEN 0
    ELSE LET m == CHOOSE x \in S : TRUE
         IN  cm[m].casosConfirmados + SomaConfirmados(cm, S \ {m})

RECURSIVE SomaObitos(_, _)
SomaObitos(cm, S) ==
    IF S = {} THEN 0
    ELSE LET m == CHOOSE x \in S : TRUE
         IN  cm[m].obitos + SomaObitos(cm, S \ {m})

Confirmado(r) == r.classificacao = "Confirmados"
Obito(r) == r.evolucao = "Óbito pelo COVID-19"

\* The rows the running (or last) pass has fully processed.
Processadas == SubSeq(linhasRelatorio.linhas, 1, i - 1)

\* The row the loop of popula_relatorio is about to take.
LinhaAtual == linhasRelatorio.linhas[i]

\* A step of the loop that processes its row to the end.
LinhaProcessada == pc = "popula" /\ pc' = "popula" /\ i' = i + 1

\* C1: after every completed aggregation pass the totals are the
\* unclassified counters plus the sum over all Municipio buckets, for the
\* confirmed cases and for the deaths.
C1_Conservacao ==
    passada = "completa" =>
        /\ totalGeral.casosConfirmados =
               importadosOuIndefinidos.casosConfirmados
                   + SomaConfirmados(casosMunicipios, DOMAIN casosMunicipios)
        /\ totalGeral.obitos =
               importadosOuIndefinidos.obitos
                   + SomaObitos(casosMunicipios, DOMAIN casosMunicipios)

\* A filter's pass has completed with cases in a bucket and unclassified
\* ones, a death among them.
C1_Witness ==
    /\ passada = "completa"
    /\ chamada.op = "filtra_casos_ate_dia"
    /\ importadosOuIndefinidos.casosConfirmados >= 1
    /\ SomaConfirmados(casosMunicipios, DOMAIN casosMunicipios) >= 1
    /\ totalGeral.obitos >= 1

\* C2: only rows classified "Confirmados" are aggregated: the total of a
\* pass counts its confirmed rows only, and no case list holds a row of
\* another classification.
C2_SoConfirmados ==
    passada \in {"em curso", "completa"} =>
        /\ totalGeral.casosConfirmados =
               Cardinality({k \in 1..Len(Processadas) : Confirmado(Processadas[k])})
        /\ \A m \in DOMAIN casosMunicipios :
               \A k \in 1..Len(casosMunicipios[m].casos) :
                   casosMunicipios[m].casos[k].classificacao = Str("Confirmados")

\* What C3 compares of two Reports.
Contadores(rel) ==
    [totalGeral |-> rel.totalGeral,
     importadosOuIndefinidos |-> rel.importadosOuIndefinidos,
     municipios |-> [m \in DOMAIN rel.casosMunicipios |->
                       <<rel.casosMunicipios[m].casosConfirmados,
                         rel.casosMunicipios[m].obitos,
                         Len(rel.casosMunicipios[m].casos)>>],
     nMunicipiosInfectados |-> rel.nMunicipiosInfectados]

\* C3: popula_relatorio called again after a completed pass, on the same
\* row set, leaves the counters, the case-list lengths and
\* nMunicipiosInfectados as the pass before left them.
C3_Idempotencia ==
    (chamada.op = "popula_relatorio" /\ passada = "completa" /\ anterior.valida)
        => Contadores(Rel) = Contadores(anterior.rel)

\* The second pass ran over rows that fill a bucket and the unclassified
\* counters.
C3_Witness ==
    /\ chamada.op = "popula_relatorio"
    /\ passada = "completa"
    /\ anterior.valida
    /\ nMunicipiosInfectados >= 1
    /\ importadosOuIndefinidos.casosConfirmados >= 1
    /\ totalGeral.obitos >= 1

\* The rows C4 expects filtra_casos_ate_dia to keep.
ConfirmadasAteDia(l, data) ==
    LET Fica(r) == Confirmado(r) /\ DataDe(r) <= arrow_get(data, FormatosFiltro)
    IN  SelectSeq(SemPrimeira(l), Fica)

\* C4: with the header as row 0, filtra_casos_ate_dia makes the working
\* row set exactly the confirmed rows dated on or before the target date, in
\* input order, and the Report it returns aggregates exactly those rows.
C4_AteDiaConfirmadas ==
    (/\ chamada.op = "filtra_casos_ate_dia"
     /\ chamada.aceita
     /\ leitorLinhas.linhas[1] = Cabecalho)
        => /\ linhasRelatorio.linhas =
                  ConfirmadasAteDia(leitorLinhas.linhas, chamada.data)
           /\ passada = "completa" =>
                  totalGeral.casosConfirmados =
                      Len(ConfirmadasAteDia(leitorLinhas.linhas, chamada.data))

\* The registry entry a municipality text matches.
MesmoMunicipio(a, b) ==
    remove_caracteres_especiais(upper(Chars(a)))
        = remove_caracteres_especiais(upper(Chars(b)))

\* nMunicipiosInfectados counts the buckets with a nonzero casosConfirmados
\* and stays within the registry.
C5_Contagem ==
    /\ nMunicipiosInfectados =
           Cardinality({m \in DOMAIN casosMunicipios :
                            casosMunicipios[m].casosConfirmados # 0})
    /\ nMunicipiosInfectados <= Cardinality(MUNICIPIOS)

\* A fully processed confirmed row of a registry municipality adds 1 when no
\* confirmed row of that municipality came before it in the pass, and
\* nothing otherwise.
C5_PrimeiroCaso ==
    (/\ LinhaProcessada
     /\ Confirmado(LinhaAtual)
     /\ NoRegistro(LinhaAtual.municipio))
        => LET primeiro ==
                   \A k \in 1..(i - 1) :
                       ~(/\ Confirmado(linhasRelatorio.linhas[k])
                         /\ MesmoMunicipio(linhasRelatorio.linhas[k].municipio,
                                           LinhaAtual.municipio))
           IN  nMunicipiosInfectados' =
                   nMunicipiosInfectados + (IF primeiro THEN 1 ELSE 0)

\* C5: after every fully processed row and at the end of every pass,
\* nMunicipiosInfectados is the number of buckets with a nonzero
\* casosConfirmados and never exceeds the registry; a municipality's first
\* confirmed case of the pass adds exactly 1 to it and a later confirmed case
\* of that municipality leaves it alone.
C5_NovosInfectados == [](C5_Contagem) /\ [][C5_PrimeiroCaso]_vars

\* The registry name a matching text stands for.
NomeCanonico(municipio) ==
    CHOOSE m \in MUNICIPIOS :
        Chars(m) = remove_caracteres_especiais(upper(Chars(municipio)))

\* The loop takes a confirmed row whose municipality is in the registry
\* after normalization.
C6_Casado ==
    (/\ pc = "popula"
     /\ i <= Len(linhasRelatorio.linhas)
     /\ Confirmado(LinhaAtual)
     /\ NoRegistro(LinhaAtual.municipio))
        => LET m == NomeCanonico(LinhaAtual.municipio)
               ob == IF Obito(LinhaAtual) THEN 1 ELSE 0
           IN  /\ erro' = "nenhum"
               /\ pc' = "popula"
               /\ Len(casosMunicipios'[m].casos) = Len(casosMunicipios[m].casos) + 1
               /\ casosMunicipios'[m].casosConfirmados =
                      casosMunicipios[m].casosConfirmados + 1
               /\ casosMunicipios'[m].obitos = casosMunicipios[m].obitos + ob
               /\ totalGeral'.casosConfirmados = totalGeral.casosConfirmados + 1
               /\ totalGeral'.obitos = totalGeral.obitos + ob

\* C6: a confirmed row whose municipality matches a registry name after
\* normalization (letter case and accents aside) is processed without error:
\* the case is appended to that Municipio and its casosConfirmados and the
\* total grow by 1 (the death counters too for a death).
C6_RegistroCasado == [][C6_Casado]_vars

\* The loop takes a confirmed row whose municipality is not in the registry.
C7_Passo ==
    (/\ pc = "popula"
     /\ i <= Len(linhasRelatorio.linhas)
     /\ Confirmado(LinhaAtual)
     /\ ~NoRegistro(LinhaAtual.municipio))
        => LET ob == IF Obito(LinhaAtual) THEN 1 ELSE 0
           IN  /\ importadosOuIndefinidos' =
                      [casosConfirmados |->
                           importadosOuIndefinidos.casosConfirmados + 1,
                       obitos |-> importadosOuIndefinidos.obitos + ob]
               /\ totalGeral' =
                      [casosConfirmados |-> totalGeral.casosConfirmados + 1,
                       obitos |-> totalGeral.obitos + ob]
               /\ casosMunicipios' = casosMunicipios
               /\ nMunicipiosInfectados' = nMunicipiosInfectados

\* C7: a confirmed row whose municipality matches no registry entry adds 1
\* to the unclassified and the total confirmed counters (and to both death
\* counters for a death) and leaves every Municipio and
\* nMunicipiosInfectados as they were.
C7_NaoCasado == [][C7_Passo]_vars

\* The loop has just processed a confirmed death of an unmatched
\* municipality, after it had filled a bucket.
C7_Witness ==
    /\ pc = "popula"
    /\ i = 3
    /\ Confirmado(linhasRelatorio.linhas[2])
    /\ Obito(linhasRelatorio.linhas[2])
    /\ ~NoRegistro(linhasRelatorio.linhas[2].municipio)
    /\ nMunicipiosInfectados = 1
    /\ importadosOuIndefinidos = [casosConfirmados |-> 1, obitos |-> 1]

Filtros == {"filtra_casos_ate_dia", "filtra_casos_no_dia"}

\* A filter is called on a reader that never loaded rows.
C8_Passo ==
    (pc = "ocioso" /\ leitorLinhas.nulo /\ chamada'.op \in Filtros)
        => /\ erro' = "RelatorioError"
           /\ ~chamada'.aceita
           /\ pc' = "ocioso"
           /\ passada' = passada
           /\ UNCHANGED <<relatorioVars, linhasRelatorio, leitorLinhas>>

\* C8: a filter called on a reader into which no rows were ever loaded
\* raises RelatorioError, enters no aggregation pass and changes nothing of
\* the Report.
C8_CargaAntesDoFiltro == [][C8_Passo]_vars

\* A filter was called on the reader before any load.
C8_Witness ==
    /\ leitorLinhas.nulo
    /\ chamada.op \in Filtros
    /\ erro = "RelatorioError"

\* popula_relatorio run to its end over a row set, from a cleared Relatorio:
\* the Relatorio it leaves and the exception that stopped it, if any.
RECURSIVE PassadaInteira(_, _)
PassadaInteira(rel, linhas) ==
    IF linhas = <<>> THEN [erro |-> "nenhum", rel |-> rel]
    ELSE LET r == popula_linha(rel, Head(linhas))
         IN  IF r.erro # "nenhum" THEN r
             ELSE PassadaInteira(r.rel, Tail(linhas))

\* The rows a filter keeps of the loaded rows, by the comprehension alone.
MantidasPor(op, data) ==
    IF op = "filtra_casos_ate_dia"
    THEN LinhasAteDia(leitorLinhas.linhas, arrow_get(data, FormatosFiltro))
    ELSE LinhasNoDia(leitorLinhas.linhas, arrow_get(data, FormatosFiltro))

\* What the filter call last made gives when it is the first call after the
\* load: its working row set, aggregated from a cleared Relatorio.
AposCarga ==
    PassadaInteira(Reiniciado(RelatorioNovo),
                   MantidasPor(chamada.op, chamada.data))

\* A filter is called on a reader that holds loaded rows: the loaded rows
\* stay, the call is accepted and the working row set is what the
\* comprehension keeps of the loaded rows.
C11_Passo ==
    (pc = "ocioso" /\ Verdadeiro(leitorLinhas) /\ chamada'.op \in Filtros)
        => /\ leitorLinhas' = leitorLinhas
           /\ chamada'.aceita
           /\ linhasRelatorio' = Lista(MantidasPor(chamada'.op, chamada'.data))

\* The pass of an accepted filter call has ended: the Report is the one the
\* same call gives right after the load.
C11_Resultado ==
    (pc = "ocioso" /\ chamada.op \in Filtros /\ chamada.aceita)
        => /\ Rel = AposCarga.rel
           /\ erro = AposCarga.erro

\* C11: once rows are loaded, whatever filter calls came before (calls
\* whose date matches no row too), a filter call leaves the reader's loaded
\* rows alone, succeeds, and gives the working row set and the Report
\* counters of the same call made right after the load.
C11_HistoriaIndependente == [](C11_Resultado) /\ [][C11_Passo]_vars

\* The same, for the calls that find the working row set non-empty.
C11_ComLinhas ==
    [][(TemLinhas(linhasRelatorio) /\ arrow_get(chamada'.data, FormatosFiltro) # -1)
          => C11_Passo]_vars

\* The Report the caller kept, as it reads now: its own
\* nMunicipiosInfectados, and the dictionaries it has in common with the
\* Relatorio it was copied from.
RelRetornado ==
    [casosMunicipios |-> casosMunicipios,
     importadosOuIndefinidos |-> importadosOuIndefinidos,
     totalGeral |-> totalGeral,
     nMunicipiosInfectados |-> retornado.nMunicipiosInfectados]

\* C12: the Report a pass returned is an independent copy: once a later
\* pass on the same Relatorio has ended, the Report's totalGeral,
\* importadosOuIndefinidos, per-municipality counters and case lists and
\* nMunicipiosInfectados are what they were when it was returned.
C12_CopiaIndependente ==
    (retornado.valido /\ pc = "ocioso") => RelRetornado = retornado.naVolta

\* The attributes that are the copy's own keep what they held.
C12_AtributosProprios ==
    retornado.valido =>
        retornado.nMunicipiosInfectados = retornado.naVolta.nMunicipiosInfectados

-----------------------------------------------------------------------------
(* Properties of the field normalizer *)

\* The positions (counted from 1) of the boolean-flag cells: the 7 symptoms,
\* the 6 comorbidities, hospitalized and the two travel flags.
ColunasBooleanas == 12..27

\* The fixed boolean vocabulary.
Vocabulario(v) ==
    IF v \in {Str("Sim"), Inteiro(1)} THEN True
    ELSE IF v = Str("Não") THEN False
    ELSE None

Booleano(v) == v \in {True, False, None}

\* C9: after normalization every boolean-flag cell holds what the fixed
\* vocabulary gives for its raw value, so every entry of a Caso's sintomas
\* and comorbidades is True, False or None.
C9_Booleanos ==
    /\ tratada.erro = "nenhum" =>
           \A j \in ColunasBooleanas : tratada.linha[j] = Vocabulario(bruta[j])
    /\ casoCriado.erro = "nenhum" =>
           /\ \A s \in DOMAIN casoCriado.caso.sintomas :
                  Booleano(casoCriado.caso.sintomas[s])
           /\ \A c \in DOMAIN casoCriado.caso.comorbidades :
                  Booleano(casoCriado.caso.comorbidades[c])
           /\ Booleano(casoCriado.caso.ficouInternado)
           /\ Booleano(casoCriado.caso.viagemBrasil)
           /\ Booleano(casoCriado.caso.viagemInternacional)

\* The sentinel-configured positions (counted from 1) and their sentinels.
ColunasComSentinela == {3, 4, 7, 10, 11}

Sentinelas(j) ==
    CASE j = 3 -> {Str("Ignorado"), Str("-")}
      [] j = 4 -> {Str("-")}
      [] j = 7 -> {Str("Não encontrado"), Str("NULL")}
      [] j \in {10, 11} -> {Str("Ignorado")}

\* C10: a sentinel-configured cell is normalized to None exactly when its
\* raw value is one of its column's sentinels; any other text, one that
\* contains a sentinel too, passes through unchanged.
C10_Sentinelas ==
    tratada.erro = "nenhum" =>
        \A j \in ColunasComSentinela :
            tratada.linha[j] = (IF bruta[j] \in Sentinelas(j) THEN None ELSE bruta[j])

=============================================================================
